---- MODULE Spec2Model ----
(***************************************************************************)
(* Model of timeline.py: the Event Store held in st.session_state, the     *)
(* Excel import/export adapters, the browser localStorage snapshot and the *)
(* file based save points.                                                 *)
(*                                                                         *)
(* Text is modelled as a tuple of one-character strings, so that strip()   *)
(* and lower() are computed.  Dates live on a miniature calendar that has  *)
(* two days per year (Jan 1 and Dec 31); a date is an ordinal, its ISO     *)
(* text is the triple <<year, month, day>>.  Image payloads are tuples of  *)
(* 2-bit bytes and their base64 text is a tuple of "0"/"1" characters.     *)
(***************************************************************************)
EXTENDS Integers, Sequences, FiniteSets, TLC

(***************************************************************************)
(* Bounds of the model.                                                    *)
(***************************************************************************)
MaxIds == 3
MaxRows == 2
MaxClock == 2
MaxSavedIds == 2

\* messages of the load component waiting to arrive
MaxPosted == 2

(***************************************************************************)
(* Text helpers: str.strip(), str.lower().                                 *)
(***************************************************************************)
IsSpace(c) == c = " "

RECURSIVE LStrip(_)
LStrip(s) ==
    IF s = <<>> THEN <<>>
    ELSE IF IsSpace(Head(s)) THEN LStrip(Tail(s)) ELSE s

RECURSIVE RStrip(_)
RStrip(s) ==
    IF s = <<>> THEN <<>>
    ELSE IF IsSpace(s[Len(s)]) THEN RStrip(SubSeq(s, 1, Len(s) - 1)) ELSE s

Strip(s) == RStrip(LStrip(s))

LowerChar(c) == IF c = "A" THEN "a" ELSE c

Lower(s) == [i \in 1..Len(s) |-> LowerChar(s[i])]

(***************************************************************************)
(* Dates: datetime.date as an ordinal, date.isoformat() and                *)
(* date.fromisoformat() on the miniature calendar.                         *)
(*   1 = 2001-12-31, 2 = 2002-01-01, 3 = 2002-12-31, 4 = 2003-01-01, ...   *)
(***************************************************************************)
IsoFormat(n) ==
    <<2001 + (n \div 2), IF n % 2 = 0 THEN 1 ELSE 12, IF n % 2 = 0 THEN 1 ELSE 31>>

FromIsoFormat(iso) == 2 * (iso[1] - 2001) + (IF iso[2] = 1 THEN 0 ELSE 1)

MIN_DATE == FromIsoFormat(<<2002, 1, 1>>)

Today == MIN_DATE + 1

(***************************************************************************)
(* base64.b64encode / base64.b64decode on 2-bit bytes: every byte becomes  *)
(* two characters.                                                         *)
(***************************************************************************)
Bit(b) == IF b = 0 THEN "0" ELSE "1"

B64Encode(bytes) ==
    [i \in 1..(2 * Len(bytes)) |->
        IF i % 2 = 1 THEN Bit(bytes[(i + 1) \div 2] \div 2)
                     ELSE Bit(bytes[i \div 2] % 2)]

UnBit(c) == IF c = "0" THEN 0 ELSE 1

B64Decode(text) ==
    [i \in 1..(Len(text) \div 2) |-> 2 * UnBit(text[2 * i - 1]) + UnBit(text[2 * i])]

(***************************************************************************)
(* Program constants.                                                      *)
(***************************************************************************)
DEFAULT_TITLE == <<"D">>

VALID_VIEWS == {"Timeline", "Domino"}

normalize_view_choiceKeep(value) == value

normalize_view_choice(value) ==
    IF value = "" THEN "Timeline"
    ELSE IF value = "Orbit" THEN "Domino"
    ELSE IF value \in VALID_VIEWS THEN value ELSE "Timeline"

(***************************************************************************)
(* An Event is the dict {"id", "title", "date", "image"} of the Add Event  *)
(* handler.  A dict key can be missing: image.k is "absent" (no key),      *)
(* "none" (None) or "str" (base64 text in image.txt); image_file.k is      *)
(* "absent" or "str", and the file name event_<i>_<id>.png is <<i, id>>.   *)
(***************************************************************************)
NoKey == [k |-> "absent", txt |-> <<>>]

NoneValue == [k |-> "none", txt |-> <<>>]

StrValue(t) == [k |-> "str", txt |-> t]

NoFile == [k |-> "absent", name |-> <<>>]

FileRef(i, id) == [k |-> "str", name |-> <<i, id>>]

\* ev.get("image"): None when the key is missing
GetImage(ev) == IF ev.image.k = "str" THEN ev.image ELSE NoneValue

\* truthiness of ev.get("image")
HasImage(ev) == ev.image.k = "str" /\ ev.image.txt # <<>>

VARIABLES
    events,      \* st.session_state["events"]
    nextId,      \* the next value str(uuid4()) hands out
    settings,    \* st.session_state["timeline_title"], ["timeline_view"]
    ls,          \* browser localStorage: timeline_events, timeline_settings
    docs,        \* save_points/<name>.json
    imgs,        \* save_points/<name>_images/
    clock,       \* datetime.datetime.now() at the next create_save_point
    confirm,     \* st.session_state["confirm_delete_<name>"]
    created,     \* history: the Store as it was when <name> was last created
    op,          \* history: the handler that ran last, its input and outcome
    loader       \* the load component: setTimeout callbacks due, messages
                 \* posted, and (history) messages already taken in

vars == <<events, nextId, settings, ls, docs, imgs, clock, confirm, created, op,
          loader>>

SavePointNames == {"X", "Y"}

Settings(title, view) == [timeline_title |-> title, timeline_view |-> view]

(***************************************************************************)
(* save_to_localstorage: the JSON text is pasted between single quotes of  *)
(* a JavaScript string literal.  A title holding an apostrophe ends the    *)
(* literal early: the script does not parse and neither setItem runs.      *)
(***************************************************************************)
HasQuote(s) == \E i \in 1..Len(s) : s[i] = "'"

JsLiteralParses(evs, st) ==
    /\ \A i \in 1..Len(evs) : ~HasQuote(evs[i].title)
    /\ ~HasQuote(st.timeline_title)

SettingsData(st) ==
    Settings(st.timeline_title, normalize_view_choice(st.timeline_view))

\* json.dumps writes a double quote of a text as \", and the JavaScript
\* literal reads \" back as a bare double quote: the stored text is cut
\* short inside the JSON string and JSON.parse rejects it
HasDoubleQuote(s) == \E i \in 1..Len(s) : s[i] = "\""

Blob(val, parses) == [present |-> TRUE, val |-> val, parses |-> parses]

NoBlob(val) == [present |-> FALSE, val |-> val, parses |-> TRUE]

save_to_localstorage(evs, st, old) ==
    IF JsLiteralParses(evs, st)
    THEN [events   |-> Blob(evs, \A i \in 1..Len(evs) : ~HasDoubleQuote(evs[i].title)),
          settings |-> Blob(SettingsData(st), ~HasDoubleQuote(st.timeline_title))]
    ELSE old

EmptyStorage ==
    [events   |-> NoBlob(<<>>),
     settings |-> NoBlob(Settings(<<>>, ""))]

(***************************************************************************)
(* load_from_localstorage: the component runs loadData once when it is     *)
(* mounted and once more from setTimeout.  loadData posts both halves in   *)
(* one message, or nothing when both keys are missing or when JSON.parse   *)
(* throws on one of them.  A posted message is taken to arrive as          *)
(* st.session_state["loaded_data"], which starts a pass.                   *)
(***************************************************************************)
NoSettings == [present |-> FALSE, val |-> Settings(<<>>, "")]

LoadedData(evs, st) == [events |-> evs, settings |-> st]

loadData(storage) ==
    IF ~storage.events.present /\ ~storage.settings.present
    THEN <<>>
    ELSE IF \/ storage.events.present /\ ~storage.events.parses
            \/ storage.settings.present /\ ~storage.settings.parses
    THEN <<>>
    ELSE <<LoadedData(
             IF storage.events.present THEN storage.events.val ELSE <<>>,
             IF storage.settings.present
             THEN [present |-> TRUE, val |-> storage.settings.val]
             ELSE NoSettings)>>

load_from_localstorage(storage) ==
    [timers |-> 1, posted |-> loadData(storage), delivered |-> 0]

(***************************************************************************)
(* sorted(events, key=lambda e: date.fromisoformat(e["date"])): a stable   *)
(* sort, here by insertion after every element whose key is not greater.   *)
(***************************************************************************)
SortKey(e) == FromIsoFormat(e.date)

\* an insertion that puts an Event before the Events of the same date
RECURSIVE InsertBeforeTies(_, _)
InsertBeforeTies(e, s) ==
    IF s = <<>> THEN <<e>>
    ELSE IF SortKey(Head(s)) < SortKey(e)
         THEN <<Head(s)>> \o InsertBeforeTies(e, Tail(s))
         ELSE <<e>> \o s

RECURSIVE InsertSorted(_, _)
InsertSorted(e, s) ==
    IF s = <<>> THEN <<e>>
    ELSE IF SortKey(Head(s)) <= SortKey(e)
         THEN <<Head(s)>> \o InsertSorted(e, Tail(s))
         ELSE <<e>> \o s

RECURSIVE sorted_events(_)
sorted_events(s) ==
    IF s = <<>> THEN <<>>
    ELSE InsertSorted(s[Len(s)], sorted_events(SubSeq(s, 1, Len(s) - 1)))

(***************************************************************************)
(* The history record of the last handler.                                 *)
(***************************************************************************)
Op(name, title, sp, ok) ==
    [name |-> name, title |-> title, sp |-> sp, ok |-> ok,
     accepted |-> 0, skipped_count |-> 0, duplicate_count |-> 0]

\* the date_input widgets raise when their default value is outside
\* [min_value, max_value]: the pass ends at the first such Event of the
\* edit loop, and nothing below it on the page is reached
DateInputAccepts(ev) ==
    /\ FromIsoFormat(ev.date) >= MIN_DATE
    /\ FromIsoFormat(ev.date) <= Today

EditLoopReaches(idx) == \A j \in 1..idx : DateInputAccepts(events[j])

\* an upload whose bytes never reach the Event
UploadImageDropped(image_file) == NoneValue

UploadImage(image_file) ==
    IF image_file = <<>> THEN NoneValue ELSE StrValue(B64Encode(image_file))

(***************************************************************************)
(* "Add Event" button.                                                     *)
(***************************************************************************)
AddEvent(title_input, date_input, image_file) ==
    /\ date_input \in MIN_DATE..Today
    /\ IF title_input # <<>>
       THEN /\ nextId <= MaxIds
            /\ events' = Append(events,
                   [id |-> nextId, title |-> title_input,
                    date |-> IsoFormat(date_input),
                    image |-> UploadImage(image_file), image_file |-> NoFile])
            /\ nextId' = nextId + 1
            /\ ls' = save_to_localstorage(events', settings, ls)
            /\ op' = Op("add", title_input, "", TRUE)
       ELSE /\ op' = Op("add", title_input, "", FALSE)
            /\ UNCHANGED <<events, nextId, ls>>
    /\ UNCHANGED <<settings, docs, imgs, clock, confirm, created, loader>>

(***************************************************************************)
(* "Save" and "Delete" buttons of the edit loop.                           *)
(***************************************************************************)
\* a Save that stores the upload alone, and None when there is none
EditSaveUploadOnly(idx, new_title, new_date, new_image_file) ==
    /\ idx \in 1..Len(events)
    /\ EditLoopReaches(idx)
    /\ new_date \in MIN_DATE..Today
    /\ events' = [events EXCEPT ![idx] =
                    [@ EXCEPT !.title = new_title,
                              !.date = IsoFormat(new_date),
                              !.image = UploadImage(new_image_file)]]
    /\ ls' = save_to_localstorage(events', settings, ls)
    /\ op' = Op("edit", <<>>, "", TRUE)
    /\ UNCHANGED <<nextId, settings, docs, imgs, clock, confirm, created, loader>>

EditSave(idx, new_title, new_date, new_image_file) ==
    /\ idx \in 1..Len(events)
    /\ EditLoopReaches(idx)
    /\ new_date \in MIN_DATE..Today
    /\ events' = [events EXCEPT ![idx] =
                    [@ EXCEPT !.title = new_title,
                              !.date = IsoFormat(new_date),
                              !.image = IF new_image_file = <<>>
                                        THEN GetImage(events[idx])
                                        ELSE StrValue(B64Encode(new_image_file))]]
    /\ ls' = save_to_localstorage(events', settings, ls)
    /\ op' = Op("edit", <<>>, "", TRUE)
    /\ UNCHANGED <<nextId, settings, docs, imgs, clock, confirm, created, loader>>

\* a pop that drops the last element whatever the index
PopLast(s, idx) == SubSeq(s, 1, Len(s) - 1)

Pop(s, idx) == SubSeq(s, 1, idx - 1) \o SubSeq(s, idx + 1, Len(s))

DeleteEvent(idx) ==
    /\ idx \in 1..Len(events)
    /\ EditLoopReaches(idx)
    /\ events' = Pop(events, idx)
    /\ ls' = save_to_localstorage(events', settings, ls)
    /\ op' = Op("delete", <<>>, "", TRUE)
    /\ UNCHANGED <<nextId, settings, docs, imgs, clock, confirm, created, loader>>

(***************************************************************************)
(* Excel import.  A name cell is NaN or text; a date cell is NaN, a        *)
(* Timestamp ("ts", ordinal in d), ISO text ("str", in iso) or text that   *)
(* pd.to_datetime cannot parse ("bad").                                    *)
(***************************************************************************)
NameCell(k, txt) == [k |-> k, txt |-> txt]

DateCell(k, d, iso) == [k |-> k, d |-> d, iso |-> iso]

Row(name, date_val) == [name |-> name, date_val |-> date_val]

IsNa(cell) == cell.k = "nan"

\* col.lower() on the column headers the model uses
LowerHeader(col) ==
    IF col = "EventName" THEN "eventname"
    ELSE IF col = "EVENTDATE" THEN "eventdate"
    ELSE col

\* a precheck that asks for the name column only
missing_colsNameOnly(columns) ==
    {"eventname"} \ {LowerHeader(col) : col \in columns}

missing_cols(columns) ==
    {"eventname", "eventdate"} \ {LowerHeader(col) : col \in columns}

\* a date coercion that reads Timestamps only
ParseDateNoText(date_val) ==
    IF date_val.k = "ts" THEN date_val.d ELSE 0

\* the date coercion of the row loop: the ordinal, or 0 when it raises
ParseDate(date_val) ==
    IF date_val.k = "ts" THEN date_val.d
    ELSE IF date_val.k = "str" THEN FromIsoFormat(date_val.iso)
    ELSE 0

EventKey(title, date_iso) == <<Strip(Lower(title)), date_iso>>

\* existing_events seeded from an empty set instead of the Store
existing_eventsUnseeded(evs) == {}

existing_events(evs) == {EventKey(evs[i].title, evs[i].date) : i \in 1..Len(evs)}

ImportState(new_events, skipped, dup, existing, nid) ==
    [new_events |-> new_events, skipped_count |-> skipped,
     duplicate_count |-> dup, existing |-> existing, nid |-> nid]

\* the row loop without the minimum date check
ImportRowNoMinDate(acc, row) ==
    IF IsNa(row.name) \/ IsNa(row.date_val)
    THEN [acc EXCEPT !.skipped_count = @ + 1]
    ELSE IF row.date_val.k = "bad"
    THEN [acc EXCEPT !.skipped_count = @ + 1]
    ELSE LET date_iso == IsoFormat(ParseDate(row.date_val))
             event_key == EventKey(row.name.txt, date_iso)
         IN  IF event_key \in acc.existing
             THEN [acc EXCEPT !.duplicate_count = @ + 1]
             ELSE [acc EXCEPT
                     !.existing = @ \cup {event_key},
                     !.new_events = Append(@,
                         [id |-> acc.nid, title |-> Strip(row.name.txt),
                          date |-> date_iso, image |-> NoneValue,
                          image_file |-> NoFile]),
                     !.nid = @ + 1]

\* the row loop handing every new Event the same id
ImportRowSameId(acc, row) ==
    IF IsNa(row.name) \/ IsNa(row.date_val)
    THEN [acc EXCEPT !.skipped_count = @ + 1]
    ELSE IF row.date_val.k = "bad"
    THEN [acc EXCEPT !.skipped_count = @ + 1]
    ELSE IF ParseDate(row.date_val) < MIN_DATE
    THEN [acc EXCEPT !.skipped_count = @ + 1]
    ELSE LET date_iso == IsoFormat(ParseDate(row.date_val))
             event_key == EventKey(row.name.txt, date_iso)
         IN  IF event_key \in acc.existing
             THEN [acc EXCEPT !.duplicate_count = @ + 1]
             ELSE [acc EXCEPT
                     !.existing = @ \cup {event_key},
                     !.new_events = Append(@,
                         [id |-> acc.nid, title |-> Strip(row.name.txt),
                          date |-> date_iso, image |-> NoneValue,
                          image_file |-> NoFile])]

\* the row loop leaving out a row with an empty cell without counting it
ImportRowNaUncounted(acc, row) ==
    IF IsNa(row.name) \/ IsNa(row.date_val)
    THEN acc
    ELSE IF row.date_val.k = "bad"
    THEN [acc EXCEPT !.skipped_count = @ + 1]
    ELSE IF ParseDate(row.date_val) < MIN_DATE
    THEN [acc EXCEPT !.skipped_count = @ + 1]
    ELSE LET date_iso == IsoFormat(ParseDate(row.date_val))
             event_key == EventKey(row.name.txt, date_iso)
         IN  IF event_key \in acc.existing
             THEN [acc EXCEPT !.duplicate_count = @ + 1]
             ELSE [acc EXCEPT
                     !.existing = @ \cup {event_key},
                     !.new_events = Append(@,
                         [id |-> acc.nid, title |-> Strip(row.name.txt),
                          date |-> date_iso, image |-> NoneValue,
                          image_file |-> NoFile]),
                     !.nid = @ + 1]

\* the row loop with the date range of the manual form
ImportRowUpperBound(acc, row) ==
    IF IsNa(row.name) \/ IsNa(row.date_val)
    THEN [acc EXCEPT !.skipped_count = @ + 1]
    ELSE IF row.date_val.k = "bad"
    THEN [acc EXCEPT !.skipped_count = @ + 1]
    ELSE IF ParseDate(row.date_val) < MIN_DATE \/ ParseDate(row.date_val) > Today
    THEN [acc EXCEPT !.skipped_count = @ + 1]
    ELSE LET date_iso == IsoFormat(ParseDate(row.date_val))
             event_key == EventKey(row.name.txt, date_iso)
         IN  IF event_key \in acc.existing
             THEN [acc EXCEPT !.duplicate_count = @ + 1]
             ELSE [acc EXCEPT
                     !.existing = @ \cup {event_key},
                     !.new_events = Append(@,
                         [id |-> acc.nid, title |-> Strip(row.name.txt),
                          date |-> date_iso, image |-> NoneValue,
                          image_file |-> NoFile]),
                     !.nid = @ + 1]

\* the row loop without "existing_events.add(event_key)"
ImportRowNoSeen(acc, row) ==
    IF IsNa(row.name) \/ IsNa(row.date_val)
    THEN [acc EXCEPT !.skipped_count = @ + 1]
    ELSE IF row.date_val.k = "bad"
    THEN [acc EXCEPT !.skipped_count = @ + 1]
    ELSE IF ParseDate(row.date_val) < MIN_DATE
    THEN [acc EXCEPT !.skipped_count = @ + 1]
    ELSE LET date_iso == IsoFormat(ParseDate(row.date_val))
             event_key == EventKey(row.name.txt, date_iso)
         IN  IF event_key \in acc.existing
             THEN [acc EXCEPT !.duplicate_count = @ + 1]
             ELSE [acc EXCEPT
                     !.new_events = Append(@,
                         [id |-> acc.nid, title |-> Strip(row.name.txt),
                          date |-> date_iso, image |-> NoneValue,
                          image_file |-> NoFile]),
                     !.nid = @ + 1]

\* one iteration of "for idx, row in df.iterrows()"
ImportRow(acc, row) ==
    IF IsNa(row.name) \/ IsNa(row.date_val)
    THEN [acc EXCEPT !.skipped_count = @ + 1]
    ELSE IF row.date_val.k = "bad"
    THEN [acc EXCEPT !.skipped_count = @ + 1]
    ELSE IF ParseDate(row.date_val) < MIN_DATE
    THEN [acc EXCEPT !.skipped_count = @ + 1]
    ELSE LET date_iso == IsoFormat(ParseDate(row.date_val))
             event_key == EventKey(row.name.txt, date_iso)
         IN  IF event_key \in acc.existing
             THEN [acc EXCEPT !.duplicate_count = @ + 1]
             ELSE [acc EXCEPT
                     !.existing = @ \cup {event_key},
                     !.new_events = Append(@,
                         [id |-> acc.nid, title |-> Strip(row.name.txt),
                          date |-> date_iso, image |-> NoneValue,
                          image_file |-> NoFile]),
                     !.nid = @ + 1]

RECURSIVE ImportRows(_, _)
ImportRows(acc, rows) ==
    IF rows = <<>> THEN acc
    ELSE ImportRows(ImportRow(acc, Head(rows)), Tail(rows))

import_rows(rows, evs, nid) ==
    ImportRows(ImportState(<<>>, 0, 0, existing_events(evs), nid), rows)

\* "Found {len(df)} rows in Excel file" and, when the precheck fails,
\* "... Missing: {missing_cols}"
FoundRows(columns, rows) ==
    [rows |-> Len(rows), missing_cols |-> missing_cols(columns)]

ImportOp(r, ok) ==
    [Op("import", <<>>, "", ok) EXCEPT
        !.accepted = Len(r.new_events),
        !.skipped_count = r.skipped_count,
        !.duplicate_count = r.duplicate_count]

\* an import that puts the new Events in front of the Store
ImportExcelPrepend(columns, rows) ==
    /\ IF missing_cols(columns) # {}
       THEN /\ op' = Op("import", <<>>, "", FALSE) @@ FoundRows(columns, rows)
            /\ UNCHANGED <<events, nextId>>
       ELSE LET r == import_rows(rows, events, nextId)
            IN  /\ r.nid <= MaxIds + 1
                /\ IF r.new_events # <<>>
                   THEN /\ events' = r.new_events \o events
                        /\ nextId' = r.nid
                        /\ op' = ImportOp(r, TRUE) @@ FoundRows(columns, rows)
                   ELSE /\ op' = ImportOp(r, FALSE) @@ FoundRows(columns, rows)
                        /\ UNCHANGED <<events, nextId>>
    /\ UNCHANGED <<settings, ls, docs, imgs, clock, confirm, created, loader>>

ImportExcel(columns, rows) ==
    /\ IF missing_cols(columns) # {}
       THEN /\ op' = Op("import", <<>>, "", FALSE) @@ FoundRows(columns, rows)
            /\ UNCHANGED <<events, nextId>>
       ELSE LET r == import_rows(rows, events, nextId)
            IN  /\ r.nid <= MaxIds + 1
                /\ IF r.new_events # <<>>
                   THEN /\ events' = events \o r.new_events
                        /\ nextId' = r.nid
                        /\ op' = ImportOp(r, TRUE) @@ FoundRows(columns, rows)
                   ELSE /\ op' = ImportOp(r, FALSE) @@ FoundRows(columns, rows)
                        /\ UNCHANGED <<events, nextId>>
    /\ UNCHANGED <<settings, ls, docs, imgs, clock, confirm, created, loader>>

(***************************************************************************)
(* Excel export: the row projection of the chronologically sorted Store,   *)
(* and the cells pd.read_excel hands back for those rows.                  *)
(***************************************************************************)
export_rows(evs) ==
    LET sorted_export == sorted_events(evs)
    IN  [i \in 1..Len(sorted_export) |->
            [eventname |-> sorted_export[i].title,
             eventdate |-> sorted_export[i].date,
             image |-> GetImage(sorted_export[i])]]

\* an empty text cell comes back as NaN
ReadExported(rows) ==
    [i \in 1..Len(rows) |->
        Row(IF rows[i].eventname = <<>> THEN NameCell("nan", <<>>)
                                        ELSE NameCell("str", rows[i].eventname),
            DateCell("str", 0, rows[i].eventdate))]

(***************************************************************************)
(* Sidebar widgets and the browser storage buttons.                        *)
(***************************************************************************)
SetView(view_choice) ==
    /\ view_choice \in {"Timeline", "Domino"}
    /\ settings' = [settings EXCEPT !.timeline_view = view_choice]
    /\ op' = Op("view", <<>>, "", TRUE)
    /\ UNCHANGED <<events, nextId, ls, docs, imgs, clock, confirm, created, loader>>

SetTitle(text) ==
    /\ settings' = [settings EXCEPT
                      !.timeline_title = IF text # <<>> THEN text ELSE DEFAULT_TITLE]
    /\ op' = Op("title", <<>>, "", TRUE)
    /\ UNCHANGED <<events, nextId, ls, docs, imgs, clock, confirm, created, loader>>

SaveNow ==
    /\ EditLoopReaches(Len(events))
    /\ ls' = save_to_localstorage(events, settings, ls)
    /\ op' = Op("savenow", <<>>, "", TRUE)
    /\ UNCHANGED <<events, nextId, settings, docs, imgs, clock, confirm, created, loader>>

ClearAll ==
    /\ EditLoopReaches(Len(events))
    /\ ls' = EmptyStorage
    /\ events' = <<>>
    /\ settings' = Settings(DEFAULT_TITLE, "Timeline")
    /\ op' = Op("clear", <<>>, "", TRUE)
    /\ UNCHANGED <<nextId, docs, imgs, clock, confirm, created, loader>>

(***************************************************************************)
(* Save points.  docs[name] is the document save_points/<name>.json:       *)
(* "missing", "ok", "notjson" (json.load raises) or "badevents" (JSON      *)
(* whose "events" holds a member that is not an object).  imgs[name] is    *)
(* the directory save_points/<name>_images with its files.  The unread     *)
(* "version" and "image_files" entries of the document are left out.       *)
(***************************************************************************)
NoDoc ==
    [state |-> "missing", name |-> "", created_at |-> 0, event_count |-> 0,
     events |-> <<>>, settings |-> Settings(<<>>, "")]

NoDir == [exists |-> FALSE, files |-> {}]

File(name, data) == [name |-> name, data |-> data]

WriteFile(files, name, data) ==
    {f \in files : f.name # name} \cup {File(name, data)}

FileExists(files, name) == \E f \in files : f.name = name

ReadFile(files, name) == (CHOOSE f \in files : f.name = name).data

\* an extraction that leaves the base64 text in the document
ExtractImageKeepInline(evs, i) ==
    IF HasImage(evs[i + 1])
    THEN [evs[i + 1] EXCEPT !.image_file = FileRef(i, evs[i + 1].id)]
    ELSE evs[i + 1]

\* the image extraction loop: i is the 0-based enumerate index
ExtractImage(evs, i) ==
    IF HasImage(evs[i + 1])
    THEN [evs[i + 1] EXCEPT !.image_file = FileRef(i, evs[i + 1].id),
                            !.image = NoKey]
    ELSE evs[i + 1]

ExtractedFiles(evs, files) ==
    {f \in files : ~\E i \in 0..(Len(evs) - 1) :
                        HasImage(evs[i + 1]) /\ f.name = <<i, evs[i + 1].id>>}
    \cup {File(<<i, evs[i + 1].id>>, B64Decode(evs[i + 1].image.txt)) :
              i \in {j \in 0..(Len(evs) - 1) : HasImage(evs[j + 1])}}

\* what the Store shows: title, date and decoded image bytes of each Event
ImageBytes(ev) == IF HasImage(ev) THEN B64Decode(ev.image.txt) ELSE <<>>

StoreView(evs) ==
    [i \in 1..Len(evs) |->
        [title |-> evs[i].title, date |-> evs[i].date, bytes |-> ImageBytes(evs[i])]]

\* save_data["events"] is the session's own list, so the loop that moves
\* the images out of the document also changes the live Events
create_save_point(save_name) ==
    LET evs == [i \in 1..Len(events) |-> ExtractImage(events, i - 1)]
    IN  /\ docs' = [docs EXCEPT ![save_name] =
                      [state |-> "ok", name |-> save_name, created_at |-> clock,
                       event_count |-> Len(events), events |-> evs,
                       settings |-> SettingsData(settings)]]
        /\ imgs' = [imgs EXCEPT ![save_name] =
                      [exists |-> TRUE, files |-> ExtractedFiles(events, @.files)]]
        /\ events' = evs

CreateSavePoint(save_name) ==
    /\ save_name \in SavePointNames
    /\ EditLoopReaches(Len(events))
    /\ clock <= MaxClock
    /\ create_save_point(save_name)
    /\ clock' = clock + 1
    /\ created' = [created EXCEPT ![save_name] = StoreView(events)]
    /\ op' = Op("create", <<>>, save_name, TRUE)
    /\ UNCHANGED <<nextId, settings, ls, confirm, loader>>

\* the content of a file whose read raises
Unreadable == <<-1>>

\* a restore loop that brings no image back
LoadEventNoImage(event, dir) ==
    [event EXCEPT !.image = NoneValue, !.image_file = NoFile]

\* one iteration of the restore loop of load_save_point
LoadEvent(event, dir) ==
    IF event.image_file.k = "str" /\ dir.exists
    THEN IF FileExists(dir.files, event.image_file.name)
         THEN IF ReadFile(dir.files, event.image_file.name) = Unreadable
              THEN [event EXCEPT !.image = NoneValue, !.image_file = NoFile]
              ELSE [event EXCEPT
                      !.image = StrValue(B64Encode(
                                    ReadFile(dir.files, event.image_file.name))),
                      !.image_file = NoFile]
         ELSE [event EXCEPT !.image_file = NoFile]
    ELSE [event EXCEPT !.image = NoneValue]

LoadedSettings(st) ==
    Settings(st.timeline_title, normalize_view_choice(st.timeline_view))

\* "Load" button: load_save_point, then save_to_localstorage on success.
\* The page that shows the button was rendered by the previous pass, so
\* the document can be gone or damaged by the time of the click.
LoadSavePoint(save_name) ==
    /\ save_name \in SavePointNames
    /\ EditLoopReaches(Len(events))
    /\ LET doc == docs[save_name]
       IN  IF doc.state \in {"missing", "notjson"}
           THEN /\ op' = Op("load", <<>>, save_name, FALSE)
                /\ UNCHANGED <<events, settings, ls>>
           ELSE IF doc.state = "badevents"
           THEN /\ settings' = LoadedSettings(doc.settings)
                /\ op' = Op("load", <<>>, save_name, FALSE)
                /\ UNCHANGED <<events, ls>>
           ELSE /\ settings' = LoadedSettings(doc.settings)
                /\ events' = [i \in 1..Len(doc.events) |->
                                 LoadEvent(doc.events[i], imgs[save_name])]
                /\ ls' = save_to_localstorage(events', settings', ls)
                /\ op' = Op("load", <<>>, save_name, TRUE)
    /\ UNCHANGED <<nextId, docs, imgs, clock, confirm, created, loader>>

\* get_save_points lists the documents that json.load can read
Listed(save_name) == docs[save_name].state \in {"ok", "badevents"}

\* a delete that unlinks the document and leaves the images directory
DeleteSavePointFirstClick(save_name) ==
    /\ save_name \in SavePointNames
    /\ EditLoopReaches(Len(events))
    /\ Listed(save_name)
    /\ docs' = [docs EXCEPT ![save_name] = NoDoc]
    /\ imgs' = [imgs EXCEPT ![save_name] = NoDir]
    /\ confirm' = [confirm EXCEPT ![save_name] = FALSE]
    /\ op' = Op("delete_sp", <<>>, save_name, TRUE)
    /\ UNCHANGED <<events, nextId, settings, ls, clock, created, loader>>

DeleteSavePointKeepImages(save_name) ==
    /\ save_name \in SavePointNames
    /\ EditLoopReaches(Len(events))
    /\ Listed(save_name)
    /\ IF confirm[save_name]
       THEN /\ docs' = [docs EXCEPT ![save_name] = NoDoc]
            /\ confirm' = [confirm EXCEPT ![save_name] = FALSE]
            /\ op' = Op("delete_sp", <<>>, save_name, TRUE)
            /\ UNCHANGED imgs
       ELSE /\ confirm' = [confirm EXCEPT ![save_name] = TRUE]
            /\ op' = Op("delete_sp", <<>>, save_name, FALSE)
            /\ UNCHANGED <<docs, imgs>>
    /\ UNCHANGED <<events, nextId, settings, ls, clock, created, loader>>

\* "Delete" button of a listed save point: the first click asks for
\* confirmation, the second calls delete_save_point
DeleteSavePoint(save_name) ==
    /\ save_name \in SavePointNames
    /\ EditLoopReaches(Len(events))
    /\ Listed(save_name)
    /\ IF confirm[save_name]
       THEN /\ docs' = [docs EXCEPT ![save_name] = NoDoc]
            /\ imgs' = [imgs EXCEPT ![save_name] = NoDir]
            /\ confirm' = [confirm EXCEPT ![save_name] = FALSE]
            /\ op' = Op("delete_sp", <<>>, save_name, TRUE)
       ELSE /\ confirm' = [confirm EXCEPT ![save_name] = TRUE]
            /\ op' = Op("delete_sp", <<>>, save_name, FALSE)
            /\ UNCHANGED <<docs, imgs>>
    /\ UNCHANGED <<events, nextId, settings, ls, clock, created, loader>>

\* a result list that always names the images directory
deleted_filesWithDir(save_name) ==
    (IF docs[save_name].state # "missing"
     THEN {[kind |-> "document", name |-> <<>>]} ELSE {})
    \cup {[kind |-> "image", name |-> f.name] : f \in imgs[save_name].files}
    \cup {[kind |-> "directory", name |-> <<>>]}

\* the paths delete_save_point returns
deleted_files(save_name) ==
    (IF docs[save_name].state # "missing"
     THEN {[kind |-> "document", name |-> <<>>]} ELSE {})
    \cup (IF imgs[save_name].exists
          THEN {[kind |-> "image", name |-> f.name] : f \in imgs[save_name].files}
               \cup {[kind |-> "directory", name |-> <<>>]}
          ELSE {})

\* delete_save_point called with any name, listed or not
delete_save_point(save_name) ==
    /\ save_name \in SavePointNames
    /\ docs' = IF docs[save_name].state # "missing"
               THEN [docs EXCEPT ![save_name] = NoDoc] ELSE docs
    /\ imgs' = IF imgs[save_name].exists
               THEN [imgs EXCEPT ![save_name] = NoDir] ELSE imgs
    /\ op' = Op("delete_save_point", <<>>, save_name, TRUE)
                @@ [deleted_files |-> deleted_files(save_name)]
    /\ UNCHANGED <<events, nextId, settings, ls, clock, confirm, created, loader>>

\* the environment: a written document is damaged on disk
DamageDocument(save_name, kind) ==
    /\ save_name \in SavePointNames
    /\ kind \in {"notjson", "badevents"}
    /\ docs[save_name].state = "ok"
    /\ docs' = [docs EXCEPT ![save_name].state = kind]
    /\ op' = Op("damage", <<>>, save_name, TRUE)
    /\ UNCHANGED <<events, nextId, settings, ls, imgs, clock, confirm, created, loader>>

\* the environment: an image file of a save point is removed, or turns
\* into one that cannot be read
DamageImage(save_name, file_name, kind) ==
    /\ save_name \in SavePointNames
    /\ kind \in {"missing", "unreadable"}
    /\ FileExists(imgs[save_name].files, file_name)
    /\ ReadFile(imgs[save_name].files, file_name) # Unreadable
    /\ imgs' = [imgs EXCEPT ![save_name].files =
                  IF kind = "missing"
                  THEN {f \in @ : f.name # file_name}
                  ELSE WriteFile(@, file_name, Unreadable)]
    /\ op' = Op("damage", <<>>, save_name, TRUE)
    /\ UNCHANGED <<events, nextId, settings, ls, docs, clock, confirm, created,
                   loader>>

(***************************************************************************)
(* The browser side of the ephemeral snapshot and the pass that takes the  *)
(* loaded data in.                                                         *)
(***************************************************************************)
\* a page load starts a session: every key of the session state is set to
\* its default and "data_restored" is missing, so the pass mounts the
\* load component; the components of the old page are gone
PageLoad ==
    /\ events' = <<>>
    /\ settings' = Settings(DEFAULT_TITLE, "Domino")
    /\ confirm' = [n \in SavePointNames |-> FALSE]
    /\ loader' = load_from_localstorage(ls)
    /\ op' = Op("pageload", <<>>, "", TRUE)
    /\ UNCHANGED <<nextId, ls, docs, imgs, clock, created>>

\* "Restore" button
Restore ==
    /\ EditLoopReaches(Len(events))
    /\ loader.timers = 0
    /\ loader.posted = <<>>
    /\ loader' = load_from_localstorage(ls)
    /\ op' = Op("restore", <<>>, "", TRUE)
    /\ UNCHANGED <<events, nextId, settings, ls, docs, imgs, clock, confirm, created>>

\* setTimeout(loadData, 100)
TimerLoadData ==
    /\ loader.timers > 0
    /\ Len(loader.posted) < MaxPosted
    /\ loader' = [loader EXCEPT !.timers = @ - 1,
                                !.posted = @ \o loadData(ls)]
    /\ op' = Op("timer", <<>>, "", TRUE)
    /\ UNCHANGED <<events, nextId, settings, ls, docs, imgs, clock, confirm, created>>

ApplyLoadedDataAlways ==
    /\ loader.posted # <<>>
    /\ LET loaded_data == Head(loader.posted)
       IN  /\ events' = loaded_data.events
           /\ settings' = IF loaded_data.settings.present
                           THEN LoadedSettings(loaded_data.settings.val)
                           ELSE settings
           /\ op' = Op("loaded_data", <<>>, "", TRUE)
                        @@ [loaded_data |-> loaded_data]
    /\ loader' = [loader EXCEPT !.posted = Tail(@), !.delivered = @ + 1]
    /\ UNCHANGED <<nextId, ls, docs, imgs, clock, confirm, created>>

\* the pass started by an arriving message: the "loaded_data" block; op
\* keeps the message that was taken in
ApplyLoadedData ==
    /\ loader.posted # <<>>
    /\ LET loaded_data == Head(loader.posted)
       IN  /\ events' = IF loaded_data.events # <<>>
                         THEN loaded_data.events ELSE events
           /\ settings' = IF loaded_data.settings.present
                           THEN LoadedSettings(loaded_data.settings.val)
                           ELSE settings
           /\ op' = Op("loaded_data", <<>>, "", TRUE)
                        @@ [loaded_data |-> loaded_data]
    /\ loader' = [loader EXCEPT !.posted = Tail(@), !.delivered = @ + 1]
    /\ UNCHANGED <<nextId, ls, docs, imgs, clock, confirm, created>>

\* the environment: one key of the snapshot is removed in the browser
RemoveItem(key) ==
    /\ key \in {"events", "settings"}
    /\ ls[key].present
    /\ ls' = [ls EXCEPT ![key] = EmptyStorage[key]]
    /\ op' = Op("removeItem", <<>>, "", TRUE)
    /\ UNCHANGED <<events, nextId, settings, docs, imgs, clock, confirm, created,
                   loader>>

(***************************************************************************)
(* The state after the first pass of a fresh session.                      *)
(***************************************************************************)
Init ==
    /\ events = <<>>
    /\ nextId = 1
    /\ settings = Settings(DEFAULT_TITLE, "Domino")
    /\ ls = EmptyStorage
    /\ docs = [n \in SavePointNames |-> NoDoc]
    /\ imgs = [n \in SavePointNames |-> NoDir]
    /\ clock = 1
    /\ confirm = [n \in SavePointNames |-> FALSE]
    /\ created = [n \in SavePointNames |-> <<>>]
    /\ op = Op("init", <<>>, "", TRUE)
    /\ loader = [timers |-> 0, posted |-> <<>>, delivered |-> 0]

(***************************************************************************)
(* Inputs.  An upload is the file's bytes; <<>> stands for "no file        *)
(* chosen".                                                                *)
(***************************************************************************)
TitleInputs == {<<>>, <<" ">>, <<"a">>, <<"A">>, <<"a", " ">>}

QuoteTitleInputs == {<<>>, <<"a">>, <<"'">>}

DateInputs == MIN_DATE..Today

ColumnInputs == {{"EventName", "EVENTDATE"}, {"eventname", "eventdate", "image"},
                 {"EventName", "image"}}

RowInputs ==
    {Row(NameCell("str", <<"a">>), DateCell("ts", MIN_DATE - 1, <<>>)),
     Row(NameCell("str", <<"a">>), DateCell("ts", MIN_DATE, <<>>)),
     Row(NameCell("str", <<" ", "A">>), DateCell("str", 0, IsoFormat(MIN_DATE)))}

\* rows that are imported as one-row sheets only
EdgeRowInputs ==
    {Row(NameCell("nan", <<>>), DateCell("ts", MIN_DATE, <<>>)),
     Row(NameCell("str", <<"a">>), DateCell("bad", 0, <<>>)),
     Row(NameCell("str", <<" ">>), DateCell("ts", Today, <<>>)),
     Row(NameCell("str", <<"a">>), DateCell("str", 0, IsoFormat(Today + 1)))}

FileInputs == UNION {[1..n -> RowInputs] : n \in 0..MaxRows}

(***************************************************************************)
(* The Event Store under manual entry: add, edit, delete.                  *)
(***************************************************************************)
StoreNext ==
    \/ \E t \in TitleInputs, d \in DateInputs : AddEvent(t, d, <<>>)
    \/ \E i \in 1..MaxIds, t \in TitleInputs, d \in DateInputs : EditSave(i, t, d, <<>>)
    \/ \E i \in 1..MaxIds : DeleteEvent(i)

SpecStore == Init /\ [][StoreNext]_vars

(***************************************************************************)
(* The Event Store with Excel import next to manual entry.                 *)
(***************************************************************************)
ImportNext ==
    \/ \E t \in {<<"a">>, <<"A", " ">>} : AddEvent(t, MIN_DATE, <<>>)
    \/ \E i \in 1..MaxIds : EditSave(i, <<"a">>, Today, <<>>)
    \/ \E i \in 1..MaxIds : DeleteEvent(i)
    \/ \E f \in FileInputs : ImportExcel({"EventName", "EVENTDATE"}, f)
    \/ \E c \in ColumnInputs, r \in EdgeRowInputs : ImportExcel(c, <<r>>)

SpecImport == Init /\ [][ImportNext]_vars

(***************************************************************************)
(* One save point over a Store of illustrated Events, with a disk that     *)
(* can damage the document.                                                *)
(***************************************************************************)
SaveNext ==
    \/ \E u \in {<<>>, <<1>>} : nextId <= MaxSavedIds /\ AddEvent(<<"a">>, Today, u)
    \/ \E i \in 1..MaxIds : EditSave(i, <<"a">>, Today, <<>>)
    \/ \E i \in 1..MaxIds : DeleteEvent(i)
    \/ ClearAll
    \/ CreateSavePoint("X")
    \/ LoadSavePoint("X")
    \/ DeleteSavePoint("X")
    \/ \E k \in {"notjson", "badevents"} : DamageDocument("X", k)

SpecSave == Init /\ [][SaveNext]_vars

(***************************************************************************)
(* Two save points side by side.                                           *)
(***************************************************************************)
PointsNext ==
    \/ nextId <= MaxSavedIds /\ AddEvent(<<"a">>, Today, <<1>>)
    \/ \E i \in 1..MaxIds : DeleteEvent(i)
    \/ \E n \in SavePointNames : CreateSavePoint(n)
    \/ \E n \in SavePointNames : LoadSavePoint(n)
    \/ \E n \in SavePointNames : DeleteSavePoint(n)

SpecPoints == Init /\ [][PointsNext]_vars

(***************************************************************************)
(* The browser snapshot under add, edit and delete.                        *)
(***************************************************************************)
SnapNext ==
    \/ \E t \in QuoteTitleInputs, u \in {<<>>, <<1>>} :
          nextId <= MaxSavedIds /\ AddEvent(t, Today, u)
    \/ \E i \in 1..MaxIds, t \in QuoteTitleInputs : EditSave(i, t, MIN_DATE, <<>>)
    \/ \E i \in 1..MaxIds : DeleteEvent(i)
    \/ SetTitle(<<"T">>)
    \/ SaveNow

SpecSnap == Init /\ [][SnapNext]_vars

(***************************************************************************)
(* Event ids under every handler that builds or replaces the Event list.   *)
(***************************************************************************)
IdRowInputs ==
    {Row(NameCell("str", <<"a">>), DateCell("ts", MIN_DATE, <<>>)),
     Row(NameCell("str", <<"b">>), DateCell("str", 0, IsoFormat(Today)))}

IdFileInputs == UNION {[1..n -> IdRowInputs] : n \in 1..MaxRows}

IdsNext ==
    \/ AddEvent(<<"a">>, MIN_DATE, <<>>)
    \/ \E i \in 1..MaxIds : EditSave(i, <<"b">>, Today, <<>>)
    \/ \E i \in 1..MaxIds : DeleteEvent(i)
    \/ \E f \in IdFileInputs : ImportExcel({"eventname", "eventdate"}, f)
    \/ CreateSavePoint("X")
    \/ LoadSavePoint("X")

SpecIds == Init /\ [][IdsNext]_vars

(***************************************************************************)
(* The "Add New Event" form over its three inputs.                         *)
(***************************************************************************)
AddTitleInputs == {<<>>, <<"a">>, <<"a", " ">>}

AddUploadInputs == {<<>>, <<1>>, <<2, 3>>}

AddNext ==
    \/ \E t \in AddTitleInputs, d \in DateInputs, u \in AddUploadInputs :
          AddEvent(t, d, u)
    \/ \E i \in 1..MaxIds : DeleteEvent(i)

SpecAdd == Init /\ [][AddNext]_vars

(***************************************************************************)
(* Import of sheets whose rows are dated outside [2002-01-01, today].      *)
(***************************************************************************)
BoundRowInputs ==
    {Row(NameCell("str", <<"a">>), DateCell("ts", MIN_DATE - 1, <<>>)),
     Row(NameCell("str", <<"a">>), DateCell("str", 0, IsoFormat(Today + 1))),
     Row(NameCell("str", <<"b">>), DateCell("ts", Today + 1, <<>>))}

BoundFileInputs == UNION {[1..n -> BoundRowInputs] : n \in 1..MaxRows}

BoundNext ==
    \/ AddEvent(<<"a">>, Today, <<>>)
    \/ \E i \in 1..MaxIds : DeleteEvent(i)
    \/ \E f \in BoundFileInputs : ImportExcel({"eventname", "eventdate"}, f)

SpecBound == Init /\ [][BoundNext]_vars

(***************************************************************************)
(* Import of sheets whose valid rows repeat a key.                         *)
(***************************************************************************)
DupRowInputs ==
    {Row(NameCell("str", <<"a">>), DateCell("ts", MIN_DATE, <<>>)),
     Row(NameCell("str", <<" ", "A">>), DateCell("str", 0, IsoFormat(MIN_DATE))),
     Row(NameCell("str", <<"b">>), DateCell("ts", MIN_DATE, <<>>))}

DupFileInputs == UNION {[1..n -> DupRowInputs] : n \in 1..MaxRows}

DupNext ==
    \/ AddEvent(<<"A">>, MIN_DATE, <<>>)
    \/ \E i \in 1..MaxIds : DeleteEvent(i)
    \/ \E f \in DupFileInputs : ImportExcel({"eventname", "eventdate"}, f)

SpecDup == Init /\ [][DupNext]_vars

(***************************************************************************)
(* delete_save_point as a function of the name, over the disks that        *)
(* create_save_point leaves behind.                                        *)
(***************************************************************************)
DiskNext ==
    \/ \E u \in {<<>>, <<1>>} : nextId <= MaxSavedIds /\ AddEvent(<<"a">>, Today, u)
    \/ \E i \in 1..MaxIds : DeleteEvent(i)
    \/ \E n \in SavePointNames : CreateSavePoint(n)
    \/ \E n \in SavePointNames : delete_save_point(n)

SpecDisk == Init /\ [][DiskNext]_vars

(***************************************************************************)
(* The ephemeral snapshot across page loads.                               *)
(***************************************************************************)
RestoreNext ==
    \/ \E t \in {<<"a">>, <<"\"">>} : nextId <= MaxSavedIds /\ AddEvent(t, Today, <<>>)
    \/ \E i \in 1..MaxIds : DeleteEvent(i)
    \/ \E t \in {<<"T">>, <<"\"">>} : SetTitle(t)
    \/ SaveNow
    \/ PageLoad
    \/ Restore
    \/ TimerLoadData
    \/ ApplyLoadedData
    \/ \E key \in {"events", "settings"} : RemoveItem(key)

SpecRestore == Init /\ [][RestoreNext]_vars

(***************************************************************************)
(* Import of sheets with and without the two required columns.             *)
(***************************************************************************)
HeaderInputs ==
    {{"EventName", "EVENTDATE"}, {"EventName", "image"}, {"EVENTDATE", "image"},
     {"image"}}

HeaderRowInputs ==
    {Row(NameCell("str", <<"b">>), DateCell("ts", Today, <<>>)),
     Row(NameCell("str", <<"a">>), DateCell("ts", MIN_DATE - 1, <<>>))}

HeaderFileInputs == UNION {[1..n -> HeaderRowInputs] : n \in 1..MaxRows}

HeaderNext ==
    \/ AddEvent(<<"B">>, Today, <<>>)
    \/ \E i \in 1..MaxIds : DeleteEvent(i)
    \/ \E c \in HeaderInputs, f \in HeaderFileInputs : ImportExcel(c, f)

SpecHeader == Init /\ [][HeaderNext]_vars

(***************************************************************************)
(* The edit loop over illustrated Events.                                  *)
(***************************************************************************)
EditTitleInputs == {<<>>, <<"b">>}

EditUploadInputs == {<<>>, <<2>>}

EditNext ==
    \/ \E u \in {<<>>, <<1>>} : nextId <= MaxSavedIds /\ AddEvent(<<"a">>, Today, u)
    \/ \E i \in 1..MaxIds, t \in EditTitleInputs, d \in DateInputs,
          u \in EditUploadInputs : EditSave(i, t, d, u)
    \/ \E i \in 1..MaxIds : DeleteEvent(i)

SpecEdit == Init /\ [][EditNext]_vars

(***************************************************************************)
(* One save point whose image files can go missing or unreadable.          *)
(***************************************************************************)
FileNames == {<<i, id>> : i \in 0..(MaxSavedIds - 1), id \in 1..MaxSavedIds}

DegradeNext ==
    \/ \E u \in {<<>>, <<1>>} : nextId <= MaxSavedIds /\ AddEvent(<<"a">>, Today, u)
    \/ \E i \in 1..MaxIds : DeleteEvent(i)
    \/ SetTitle(<<"T">>)
    \/ CreateSavePoint("X")
    \/ \E n \in FileNames, k \in {"missing", "unreadable"} : DamageImage("X", n, k)
    \/ LoadSavePoint("X")

SpecDegrade == Init /\ [][DegradeNext]_vars

(***************************************************************************)
(* Properties.                                                             *)
(***************************************************************************)
Range(s) == {s[i] : i \in 1..Len(s)}

DateOf(ev) == FromIsoFormat(ev.date)

TrimmedTitle(ev) == Strip(ev.title)

NormalizedKey(ev) == <<Strip(Lower(ev.title)), ev.date>>

\* C1: Add Event with a title that is empty or only whitespace always
\* fails with the EmptyTitle warning, whatever the date, and leaves the
\* Store unchanged.
C1_BlankTitleRejected ==
    [][(op'.name = "add" /\ Strip(op'.title) = <<>>)
          => (~op'.ok /\ events' = events)]_vars

\* C3 (as stated): in every reachable state the date of every Event lies
\* within [2002-01-01, today].
C3_DateWithinRange ==
    \A i \in 1..Len(events) :
        DateOf(events[i]) >= MIN_DATE /\ DateOf(events[i]) <= Today

\* C3 (amended): in every reachable state the date of every Event is on or
\* after 2002-01-01, and every Event that Add Event creates or an edit
\* updates is dated on or before today; import enforces the lower bound
\* only.
C3_DateLowerBoundAndManualRange ==
    [][/\ \A e \in Range(events') : DateOf(e) >= MIN_DATE
       /\ op'.name \in {"add", "edit"} =>
              \A e \in Range(events') \ Range(events) : DateOf(e) <= Today]_vars

C3_Witness ==
    /\ op.name = "edit"
    /\ \E i \in 1..Len(events) : DateOf(events[i]) > Today
    /\ \E i \in 1..Len(events) : DateOf(events[i]) = MIN_DATE

\* C4: every Event in the Store has a title that is non-empty after
\* trimming.
C4_TitleNonEmpty ==
    \A i \in 1..Len(events) : TrimmedTitle(events[i]) # <<>>

NoNewDuplicate(old, new) ==
    \A i, j \in 1..Len(new) :
        (i < j /\ NormalizedKey(new[i]) = NormalizedKey(new[j])) => j <= Len(old)

\* C5 (as stated): after any import merge no two Events in the Store share
\* the same normalized key (title lower-cased and trimmed, date).
C5_NoDuplicateAfterImport ==
    (op.name = "import" /\ op.ok) =>
        \A i, j \in 1..Len(events) :
            NormalizedKey(events[i]) = NormalizedKey(events[j]) => i = j

\* C5 (amended): an import merge never adds an Event whose normalized key
\* equals that of an Event already in the Store or of another Event
\* accepted by the same import: two Events share a key after the merge
\* only if both were in the Store, sharing it, before the merge.
C5_ImportAddsNoDuplicate ==
    [][op'.name = "import" =>
          /\ SubSeq(events', 1, Len(events)) = events
          /\ NoNewDuplicate(events, events')]_vars

C5_Witness ==
    /\ op.name = "import"
    /\ op.ok
    /\ op.duplicate_count > 0
    /\ Len(events) > op.accepted

Pairs(evs) == {<<evs[i].title, evs[i].date>> : i \in 1..Len(evs)}

\* export the sorted Store, read the sheet back, import it into an empty
\* Store
RoundTrip(evs) == import_rows(ReadExported(export_rows(evs)), <<>>, 1).new_events

RoundTripSafe(evs) ==
    /\ \A i \in 1..Len(evs) : evs[i].title # <<>> /\ Strip(evs[i].title) = evs[i].title
    /\ \A i, j \in 1..Len(evs) :
           NormalizedKey(evs[i]) = NormalizedKey(evs[j]) => i = j

PositionOf(evs, id) == CHOOSE i \in 1..Len(evs) : evs[i].id = id

\* C10: the sorted view of the Store is non-decreasing by date, is a
\* permutation of the Store, and Events with equal dates appear in their
\* Store (insertion) order.
C10_SortedStablePermutation ==
    LET s == sorted_events(events)
    IN  /\ Len(s) = Len(events)
        /\ Range(s) = Range(events)
        /\ \A i, j \in 1..Len(s) :
               i < j =>
                   /\ DateOf(s[i]) <= DateOf(s[j])
                   /\ DateOf(s[i]) = DateOf(s[j]) =>
                          PositionOf(events, s[i].id) < PositionOf(events, s[j].id)

C10_Witness ==
    /\ Len(events) = 3
    /\ op.name \in {"edit", "delete", "add"}
    /\ DateOf(events[1]) > DateOf(events[2])
    /\ DateOf(events[2]) = DateOf(events[3])
    /\ events[2].title # events[3].title

\* C2: create(X), then removing all in-memory Events, then load(X)
\* restores an Event list identical in (title, date) and image bytes to the
\* Store at creation time.
C2_SavePointRoundTrip ==
    [][(op'.name = "load" /\ op'.ok /\ events = <<>>)
          => StoreView(events') = created[op'.sp]]_vars

\* C7: once written, a save point's document and image files are changed
\* by no later operation other than delete of that save point.
C7_SavePointImmutable ==
    [][\A n \in SavePointNames :
          (docs[n].state = "ok" /\ ~(op'.name = "delete_sp" /\ op'.sp = n /\ op'.ok))
              => (docs'[n] = docs[n] /\ imgs'[n] = imgs[n])]_vars

\* C8: a load_save_point that fails leaves the Store's events and every
\* ViewSettings field exactly as they were before the call.
C8_FailedLoadChangesNothing ==
    [][(op'.name = "load" /\ ~op'.ok)
          => (events' = events /\ settings' = settings)]_vars

\* C9: every add, edit or delete of an Event saves the ephemeral snapshot
\* in the same pass, so that afterwards the snapshot's event list equals
\* the Store's event list.
C9_SnapshotFollowsStore ==
    [][(op'.name \in {"add", "edit", "delete"} /\ op'.ok)
          => (ls'.events.present /\ ls'.events.val = events')]_vars

Ids(evs) == [i \in 1..Len(evs) |-> evs[i].id]

IdSet(evs) == {evs[i].id : i \in 1..Len(evs)}

\* the ids held by the Store, the browser snapshot and the save documents
KnownIds ==
    IdSet(events) \cup IdSet(ls.events.val)
        \cup UNION {IdSet(docs[n].events) : n \in SavePointNames}

\* C11: the Events of the Store have pairwise distinct ids in every state;
\* add and import give each new Event an id that no Event holds or held in
\* a snapshot or save document, and edit, delete, import and load leave
\* the id of every Event they keep as it was.
C11_IdsDistinctAndStable ==
    [][/\ \A i, j \in 1..Len(events') : events'[i].id = events'[j].id => i = j
       /\ op'.name \in {"edit", "create"} => Ids(events') = Ids(events)
       /\ op'.name = "delete"
             => \E i \in 1..Len(events) : Ids(events') = Pop(Ids(events), i)
       /\ op'.name \in {"add", "import"}
             => /\ SubSeq(Ids(events'), 1, Len(events)) = Ids(events)
                /\ \A i \in (Len(events) + 1)..Len(events') :
                       events'[i].id \notin KnownIds
       /\ (op'.name = "load" /\ op'.ok)
             => Ids(events') = Ids(docs[op'.sp].events)]_vars

C11_Witness ==
    /\ op.name = "import"
    /\ op.accepted = 2
    /\ Len(events) = 2
    /\ docs["X"].state = "ok"
    /\ IdSet(docs["X"].events) # {}
    /\ IdSet(docs["X"].events) \cap IdSet(events) = {}

\* C12: Add Event with a title that is non-empty after trimming, a date in
\* [2002-01-01, today] and an optional image succeeds and appends exactly
\* one Event; the Event found under the new id carries the title, the date
\* and the image bytes exactly as given.
C12_AddStoresWhatWasGiven ==
    [][\A t \in AddTitleInputs, d \in DateInputs, u \in AddUploadInputs :
          (Strip(t) # <<>> /\ AddEvent(t, d, u))
              => /\ op'.ok
                 /\ Len(events') = Len(events) + 1
                 /\ SubSeq(events', 1, Len(events)) = events
                 /\ LET id == events'[Len(events')].id
                        found == {i \in 1..Len(events') : events'[i].id = id}
                    IN  /\ id \notin IdSet(events)
                        /\ Cardinality(found) = 1
                        /\ \A i \in found :
                              /\ events'[i].title = t
                              /\ FromIsoFormat(events'[i].date) = d
                              /\ HasImage(events'[i]) <=> u # <<>>
                              /\ ImageBytes(events'[i]) = u]_vars

C12_Witness ==
    /\ op.name = "add"
    /\ op.ok
    /\ Len(events) = 2
    /\ events[2].title = <<"a", " ">>
    /\ DateOf(events[2]) = MIN_DATE
    /\ ImageBytes(events[2]) = <<2, 3>>
    /\ events[2].id > 2

RowDate(r) ==
    IF r.date_val.k = "ts" THEN r.date_val.d ELSE FromIsoFormat(r.date_val.iso)

RowKey(r) == <<Strip(Lower(r.name.txt)), IsoFormat(RowDate(r))>>

StoreKeys(evs) == {NormalizedKey(evs[i]) : i \in 1..Len(evs)}

BeforeMinRows(f) == {i \in 1..Len(f) : RowDate(f[i]) < MIN_DATE}

FutureKeys(f) == {RowKey(f[i]) : i \in {j \in 1..Len(f) : RowDate(f[j]) > Today}}

\* C13: import enforces the lower date bound only: every row dated before
\* 2002-01-01 is skipped and counted in skipped_count, and a row dated
\* after today whose key is new to the Store is accepted as an Event.
C13_ImportLowerBoundOnly ==
    [][\A f \in BoundFileInputs :
          ImportExcel({"eventname", "eventdate"}, f)
              => /\ op'.skipped_count = Cardinality(BeforeMinRows(f))
                 /\ SubSeq(events', 1, Len(events)) = events
                 /\ \A i \in (Len(events) + 1)..Len(events') :
                       DateOf(events'[i]) > Today
                 /\ {NormalizedKey(events'[i]) : i \in (Len(events) + 1)..Len(events')}
                       = FutureKeys(f) \ StoreKeys(events)]_vars

C13_Witness ==
    /\ op.name = "import"
    /\ op.skipped_count = 1
    /\ op.accepted = 1
    /\ Len(events) = 3
    /\ DateOf(events[1]) = Today
    /\ DateOf(events[2]) > Today
    /\ DateOf(events[3]) > Today

NewKeys(f, evs) == {RowKey(f[i]) : i \in 1..Len(f)} \ StoreKeys(evs)

FirstRowWith(f, key) ==
    CHOOSE i \in 1..Len(f) :
        /\ RowKey(f[i]) = key
        /\ \A j \in 1..(i - 1) : RowKey(f[j]) # key

\* C14: within one import of valid rows, of the rows sharing a normalized
\* key that the Store does not hold exactly the first becomes an Event and
\* each later one adds one to duplicate_count: two such rows give one
\* accepted Event and duplicate_count = 1.
C14_FirstOfRepeatedKeyAccepted ==
    [][\A f \in DupFileInputs :
          ImportExcel({"eventname", "eventdate"}, f)
              => LET added == (Len(events) + 1)..Len(events')
                 IN  /\ SubSeq(events', 1, Len(events)) = events
                     /\ op'.accepted = Cardinality(NewKeys(f, events))
                     /\ op'.duplicate_count = Len(f) - Cardinality(NewKeys(f, events))
                     /\ \A key \in NewKeys(f, events) :
                           /\ Cardinality({i \in added :
                                              NormalizedKey(events'[i]) = key}) = 1
                           /\ \E i \in added :
                                 events'[i].title
                                     = Strip(f[FirstRowWith(f, key)].name.txt)]_vars

C14_Witness ==
    /\ op.name = "import"
    /\ op.accepted = 1
    /\ op.duplicate_count = 1
    /\ Len(events) = 1
    /\ events[1].title = <<"A">>

C16_DeleteRemovesSavePoint ==
    [][/\ (op'.name = "delete_sp" /\ op'.ok)
             => /\ docs[op'.sp].state # "missing"
                /\ docs'[op'.sp].state = "missing"
                /\ ~imgs'[op'.sp].exists
                /\ imgs'[op'.sp].files = {}
                /\ ~(docs'[op'.sp].state \in {"ok", "badevents"})
                /\ \A n \in SavePointNames \ {op'.sp} :
                      docs'[n] = docs[n] /\ imgs'[n] = imgs[n]
       /\ (op'.name = "load" /\ docs[op'.sp].state = "missing")
             => /\ ~op'.ok
                /\ events' = events
                /\ settings' = settings
                /\ docs' = docs
                /\ imgs' = imgs]_vars

C16_Witness ==
    /\ op.name = "load"
    /\ op.sp = "X"
    /\ ~op.ok
    /\ docs["X"].state = "missing"
    /\ ~imgs["X"].exists
    /\ \E i \in 1..Len(created["X"]) : created["X"][i].bytes # <<>>
    /\ docs["Y"].state = "ok"
    /\ imgs["Y"].files # {}

\* C17: delete_save_point on a name that was never created, or is already
\* deleted, returns an empty list of removed files and changes neither the
\* disk nor the live session.
C17_DeleteMissingIsNoOp ==
    [][(op'.name = "delete_save_point" /\ docs[op'.sp].state = "missing")
          => /\ op'.deleted_files = {}
             /\ docs' = docs
             /\ imgs' = imgs
             /\ events' = events
             /\ settings' = settings
             /\ ls' = ls
             /\ confirm' = confirm]_vars

C17_Witness ==
    /\ op.name = "delete_save_point"
    /\ op.sp = "X"
    /\ op.deleted_files = {}
    /\ \E i \in 1..Len(created["X"]) : created["X"][i].bytes # <<>>
    /\ docs["Y"].state = "ok"
    /\ imgs["Y"].files # {}
    /\ events # <<>>

Readable(blob) == blob.present /\ blob.parses

\* C18: the ephemeral load recovers each half on its own: when exactly one
\* of the two blobs (events, settings) is malformed or absent, the load
\* still hands over the other half, which the session then takes in, and
\* the bad half comes as the empty default.
C18_HalvesRecoverIndependently ==
    [][/\ (/\ op'.name \in {"pageload", "restore"}
           /\ Readable(ls.events) # Readable(ls.settings))
             => /\ loader'.posted # <<>>
                /\ LET loaded_data == loader'.posted[Len(loader'.posted)]
                   IN  /\ Readable(ls.events)
                             => /\ loaded_data.events = ls.events.val
                                /\ ~loaded_data.settings.present
                       /\ Readable(ls.settings)
                             => /\ loaded_data.settings.present
                                /\ loaded_data.settings.val = ls.settings.val
                                /\ loaded_data.events = <<>>
       /\ op'.name = "loaded_data"
             => LET loaded_data == Head(loader.posted)
                IN  /\ loaded_data.events # <<>> => events' = loaded_data.events
                    /\ loaded_data.settings.present
                          => settings' = loaded_data.settings.val]_vars

\* the spellings of a required column among the headers of the sheets
Spellings(required) ==
    IF required = "eventname" THEN {"eventname", "EventName"}
    ELSE {"eventdate", "EVENTDATE"}

HasColumn(columns, required) == columns \cap Spellings(required) # {}

\* C19: the column precheck of import is all-or-nothing: when eventname or
\* eventdate (compared without case) is missing from the sheet, the import
\* reports the error and leaves the Store as it was; no row is imported,
\* skipped or counted.
C19_MissingColumnImportsNothing ==
    [][\A c \in HeaderInputs, f \in HeaderFileInputs :
          (/\ ~(HasColumn(c, "eventname") /\ HasColumn(c, "eventdate"))
           /\ ImportExcel(c, f))
              => /\ ~op'.ok
                 /\ events' = events
                 /\ nextId' = nextId
                 /\ ls' = ls
                 /\ op'.accepted = 0
                 /\ op'.skipped_count = 0
                 /\ op'.duplicate_count = 0]_vars

C19_Witness ==
    /\ op.name = "import"
    /\ ~op.ok
    /\ op.accepted = 0
    /\ op.skipped_count = 0
    /\ op.duplicate_count = 0
    /\ Len(events) = 2
    /\ events[1].id = 2

\* C20: creating a save point leaves the live session unchanged: after it
\* every Event of the Store has the same id, title, date and inline image
\* as before, and no Event has gained or lost a field.
C20_CreateLeavesSessionUnchanged ==
    [][op'.name = "create"
          => /\ Len(events') = Len(events)
             /\ \A i \in 1..Len(events) :
                   /\ events'[i].id = events[i].id
                   /\ events'[i].title = events[i].title
                   /\ events'[i].date = events[i].date
                   /\ events'[i].image = events[i].image
                   /\ events'[i].image_file = events[i].image_file
             /\ settings' = settings]_vars

\* C21: every user action that changes the Event Store saves the
\* ephemeral snapshot in the same pass: after an import that accepts at
\* least one Event the snapshot's event list holds the imported Events.
C21_ImportSavesSnapshot ==
    [][(op'.name = "import" /\ op'.ok)
          => /\ ls'.events.present
             /\ \A i \in (Len(events) + 1)..Len(events') :
                   \E j \in 1..Len(ls'.events.val) :
                       ls'.events.val[j] = events'[i]]_vars

\* C22: the second attempt of the ephemeral load is harmless: in every
\* interleaving with user actions, taking in a message of a load after one
\* of its messages was taken in already leaves the Store's events as they
\* are, and so discards no Event that entered the Store in between.
C22_SecondDeliveryChangesNothing ==
    [][(op'.name = "loaded_data" /\ loader.delivered >= 1)
          => events' = events]_vars

\* C23: saving an edit overwrites only the title, date and image of the
\* target Event: its id and position, every other Event and the length of
\* the Store stay as they were, and without a replacement upload the
\* image the Event had is kept.
C23_EditFrame ==
    [][\A i \in 1..MaxIds, t \in EditTitleInputs, d \in DateInputs,
          u \in EditUploadInputs :
          (op'.name = "edit" /\ EditSave(i, t, d, u))
              => /\ Len(events') = Len(events)
                 /\ \A j \in 1..Len(events) : j # i => events'[j] = events[j]
                 /\ events'[i].id = events[i].id
                 /\ events'[i].image_file = events[i].image_file
                 /\ events'[i].title = t
                 /\ DateOf(events'[i]) = d
                 /\ u = <<>> => GetImage(events'[i]) = GetImage(events[i])
                 /\ u # <<>> => ImageBytes(events'[i]) = u]_vars

C23_Witness ==
    /\ op.name = "edit"
    /\ Len(events) = 2
    /\ ImageBytes(events[1]) = <<2>>
    /\ events[2].title = <<"b">>
    /\ DateOf(events[2]) = MIN_DATE
    /\ ImageBytes(events[2]) = <<1>>

\* C24: deleting an Event removes exactly that Event: the Store shrinks by
\* one, the deleted id no longer occurs in it, and all other Events stay
\* unchanged and in the same relative order.
C24_DeleteFrame ==
    [][\A i \in 1..MaxIds :
          (op'.name = "delete" /\ DeleteEvent(i))
              => /\ Len(events') = Len(events) - 1
                 /\ events[i].id \notin IdSet(events')
                 /\ \A j \in 1..(i - 1) : events'[j] = events[j]
                 /\ \A j \in (i + 1)..Len(events) : events'[j - 1] = events[j]]_vars

C24_Witness ==
    /\ op.name = "delete"
    /\ Len(events) = 2
    /\ events[1].id = 1
    /\ events[2].id = 3
    /\ events[1].title # events[2].title

\* the rows of a sheet of valid rows that bring a key the Store and the
\* rows above them do not hold
AcceptedRows(f, evs) ==
    {i \in 1..Len(f) :
        /\ RowKey(f[i]) \notin StoreKeys(evs)
        /\ \A j \in 1..(i - 1) : RowKey(f[j]) # RowKey(f[i])}

NthOf(S, k) == CHOOSE i \in S : Cardinality({j \in S : j <= i}) = k

\* C25: an import appends the accepted Events to the end of the Store in
\* the order of their rows, each with a fresh id, the trimmed title and no
\* image, and leaves every Event that was there unchanged in value and
\* position.
C25_ImportAppendsInRowOrder ==
    [][\A f \in DupFileInputs :
          (op'.name = "import" /\ ImportExcel({"eventname", "eventdate"}, f))
              => LET acc == AcceptedRows(f, events)
                 IN  /\ Len(events') = Len(events) + Cardinality(acc)
                     /\ SubSeq(events', 1, Len(events)) = events
                     /\ \A k \in 1..Cardinality(acc) :
                           LET ev  == events'[Len(events) + k]
                               row == f[NthOf(acc, k)]
                           IN  /\ ev.title = Strip(row.name.txt)
                               /\ ev.date = IsoFormat(RowDate(row))
                               /\ ev.image = NoneValue
                               /\ ev.image_file = NoFile
                               /\ ev.id \notin KnownIds
                               /\ \A m \in 1..(k - 1) :
                                     events'[Len(events) + m].id # ev.id]_vars

C25_Witness ==
    /\ op.name = "import"
    /\ op.accepted = 1
    /\ op.duplicate_count = 1
    /\ Len(events) = 2
    /\ events[1].title = <<"b">>
    /\ events[2].title = <<"A">>
    /\ events[2].id = 3

\* the file a document's Event points to can be read
ImageFileReadable(event, dir) ==
    /\ event.image_file.k = "str"
    /\ \E f \in dir.files : f.name = event.image_file.name /\ f.data # <<-1>>

\* C26: loading a save point degrades per Event: when the image file of
\* one Event is missing or unreadable only that Event comes back without
\* image; the load succeeds, and every other Event with its image and the
\* settings are restored.
C26_LoadDegradesPerEvent ==
    [][(op'.name = "load" /\ docs[op'.sp].state = "ok")
          => LET doc == docs[op'.sp]
                 dir == imgs[op'.sp]
             IN  /\ op'.ok
                 /\ settings' = doc.settings
                 /\ Len(events') = Len(doc.events)
                 /\ \A i \in 1..Len(doc.events) :
                       /\ events'[i].id = doc.events[i].id
                       /\ events'[i].title = doc.events[i].title
                       /\ events'[i].date = doc.events[i].date
                       /\ IF ImageFileReadable(doc.events[i], dir)
                          THEN \E f \in dir.files :
                                  /\ f.name = doc.events[i].image_file.name
                                  /\ ImageBytes(events'[i]) = f.data
                                  /\ HasImage(events'[i])
                          ELSE ~HasImage(events'[i])]_vars

C26_Witness ==
    /\ op.name = "load"
    /\ op.ok
    /\ Len(events) = 2
    /\ HasImage(events[1])
    /\ ~HasImage(events[2])
    /\ docs["X"].events[2].image_file.k = "str"
    /\ \E f \in imgs["X"].files :
          f.name = docs["X"].events[2].image_file.name /\ f.data = <<-1>>
    /\ settings.timeline_title = <<"T">>

(***************************************************************************)
(* View names in stored data.  A document or a snapshot written by an      *)
(* earlier version of the program can hold the old name "Orbit", no name,  *)
(* or a name this version does not know.                                   *)
(***************************************************************************)
LegacyViews == {"Orbit", "", "Spiral"}

\* the environment: the save-point document on disk is one of an earlier
\* version
LegacyDocument(save_name, view) ==
    /\ save_name \in SavePointNames
    /\ view \in LegacyViews
    /\ docs[save_name].state = "ok"
    /\ docs' = [docs EXCEPT ![save_name].settings.timeline_view = view]
    /\ op' = Op("legacy", <<>>, save_name, TRUE)
    /\ UNCHANGED <<events, nextId, settings, ls, imgs, clock, confirm, created, loader>>

\* the environment: the snapshot in the browser is one of an earlier version
LegacySnapshot(view) ==
    /\ view \in LegacyViews
    /\ ls.settings.present
    /\ ls' = [ls EXCEPT !.settings.val.timeline_view = view]
    /\ op' = Op("legacy", <<>>, "", TRUE)
    /\ UNCHANGED <<events, nextId, settings, docs, imgs, clock, confirm, created, loader>>

ViewNext ==
    \/ \E v \in VALID_VIEWS : SetView(v)
    \/ SaveNow
    \/ ClearAll
    \/ CreateSavePoint("X")
    \/ LoadSavePoint("X")
    \/ \E v \in LegacyViews : LegacyDocument("X", v)
    \/ \E v \in LegacyViews : LegacySnapshot(v)
    \/ PageLoad
    \/ TimerLoadData
    \/ ApplyLoadedData

SpecView == Init /\ [][ViewNext]_vars

SupportedViews == {"Timeline", "Domino"}

Remapped(view) ==
    IF view = "Orbit" THEN "Domino"
    ELSE IF view \in SupportedViews THEN view ELSE "Timeline"

\* C27: after every step the session's timeline_view is Timeline or Domino,
\* and so is the view in every snapshot and every save point the program
\* writes in the step; a load of a save point or of a snapshot sets the
\* session's view to the stored one with Orbit remapped to Domino and an
\* empty or unknown name remapped to Timeline.
C27_ViewAlwaysSupported ==
    [][/\ settings'.timeline_view \in SupportedViews
       /\ (op'.name = "create" /\ op'.ok)
             => docs'[op'.sp].settings.timeline_view \in SupportedViews
       /\ (op'.name # "legacy" /\ ls' # ls /\ ls'.settings.present)
             => ls'.settings.val.timeline_view \in SupportedViews
       /\ (op'.name = "load" /\ docs[op'.sp].state \in {"ok", "badevents"})
             => settings'.timeline_view
                   = Remapped(docs[op'.sp].settings.timeline_view)
       /\ (op'.name = "loaded_data" /\ Head(loader.posted).settings.present)
             => settings'.timeline_view
                   = Remapped(Head(loader.posted).settings.val.timeline_view)
      ]_vars

\* a document holding an unknown view name was loaded and the session shows
\* Timeline, a snapshot holding Orbit is on its way to the session, and the
\* snapshot written by the load holds a supported name
C27_Witness ==
    /\ op.name = "load" /\ op.ok
    /\ docs["X"].settings.timeline_view = "Spiral"
    /\ settings.timeline_view = "Timeline"
    /\ ls.settings.val.timeline_view = "Timeline"
    /\ loader.posted # <<>>
    /\ Head(loader.posted).settings.val.timeline_view = "Orbit"

\* C28: the pass that takes in a loaded snapshot replaces the Events by the
\* snapshot's list when that list is not empty and leaves them as they are
\* when it is empty or absent; the settings of the snapshot, when it has
\* any, are applied in both cases and the session's settings stay as they
\* are otherwise; the pass removes exactly the message it took in and
\* touches nothing else.
C28_LoadedDataFrame ==
    [][op'.name = "loaded_data" =>
         LET loaded_data == Head(loader.posted)
         IN  /\ loader.posted # <<>>
             /\ op'.loaded_data = loaded_data
             /\ loaded_data.events # <<>> => events' = loaded_data.events
             /\ loaded_data.events = <<>> => events' = events
             /\ loaded_data.settings.present =>
                   /\ settings'.timeline_title
                         = loaded_data.settings.val.timeline_title
                   /\ settings'.timeline_view
                         = Remapped(loaded_data.settings.val.timeline_view)
             /\ ~loaded_data.settings.present => settings' = settings
             /\ loader'.posted = Tail(loader.posted)
             /\ loader'.delivered = loader.delivered + 1
             /\ UNCHANGED <<nextId, ls, docs, imgs, clock, confirm>>
      ]_vars

\* a snapshot without Events and with the title "T" was taken in by a
\* session that had Events: they are still there and the title is "T"
C28_Witness ==
    /\ op.name = "loaded_data"
    /\ op.loaded_data.events = <<>>
    /\ op.loaded_data.settings.present
    /\ op.loaded_data.settings.val.timeline_title = <<"T">>
    /\ events # <<>>
    /\ settings.timeline_title = <<"T">>
    /\ loader.posted = <<>>

\* C29: a step removes the document of a save point only if it is a Delete
\* click on that save point made while its confirm flag is set, and that
\* step resets the flag; the flag of a save point becomes set only by a
\* Delete click on it; a Delete click made while the flag is not set sets
\* the flag and leaves every document and every image directory as it is.
C29_DeleteNeedsConfirm ==
    [][\A n \in SavePointNames :
          /\ (docs[n].state # "missing" /\ docs'[n].state = "missing")
                => /\ op'.name = "delete_sp" /\ op'.sp = n /\ op'.ok
                   /\ confirm[n]
                   /\ ~confirm'[n]
          /\ (~confirm[n] /\ confirm'[n])
                => op'.name = "delete_sp" /\ op'.sp = n /\ ~op'.ok
          /\ (op'.name = "delete_sp" /\ op'.sp = n /\ ~confirm[n])
                => /\ confirm'[n]
                   /\ ~op'.ok
                   /\ docs' = docs
                   /\ imgs' = imgs
      ]_vars

\* X was removed by its second click and its flag is reset, while Y has
\* had one click only: its flag is set and it is still on disk
C29_Witness ==
    /\ op.name = "delete_sp" /\ op.sp = "X" /\ op.ok
    /\ docs["X"].state = "missing"
    /\ ~confirm["X"]
    /\ confirm["Y"]
    /\ docs["Y"].state = "ok"
    /\ imgs["Y"].exists

(***************************************************************************)
(* Import over sheets with rows of every kind: an empty cell, a date that  *)
(* cannot be read, a date before the minimum, and rows that are accepted   *)
(* or repeat a key.                                                        *)
(***************************************************************************)
CountHeaderInputs == {{"EventName", "EVENTDATE"}, {"EventName", "image"}}

CountRowInputs ==
    {Row(NameCell("nan", <<>>), DateCell("ts", MIN_DATE, <<>>)),
     Row(NameCell("str", <<"a">>), DateCell("bad", 0, <<>>)),
     Row(NameCell("str", <<"a">>), DateCell("ts", MIN_DATE - 1, <<>>)),
     Row(NameCell("str", <<"a">>), DateCell("ts", MIN_DATE, <<>>)),
     Row(NameCell("str", <<" ", "A">>), DateCell("str", 0, IsoFormat(MIN_DATE)))}

CountFileInputs == UNION {[1..n -> CountRowInputs] : n \in 0..MaxRows}

CountNext ==
    \/ AddEvent(<<"A">>, MIN_DATE, <<>>)
    \/ \E i \in 1..MaxIds : DeleteEvent(i)
    \/ \E c \in CountHeaderInputs, f \in CountFileInputs : ImportExcel(c, f)

SpecCount == Init /\ [][CountNext]_vars

\* C30: an import of a sheet that has both required columns puts every row
\* in exactly one of three classes: the number of Events it adds to the
\* Store, its skipped_count and its duplicate_count add up to the number of
\* rows of the sheet.
C30_RowsCountedOnce ==
    [][(op'.name = "import" /\ op'.missing_cols = {})
          => /\ op'.accepted + op'.skipped_count + op'.duplicate_count
                   = op'.rows
             /\ Len(events') = Len(events) + op'.accepted]_vars

\* a two-row import into a Store holding "A": one row had an empty cell and
\* was skipped, the other repeated the key of "A"; nothing was accepted
C30_Witness ==
    /\ op.name = "import"
    /\ op.accepted = 0
    /\ op.skipped_count = 1
    /\ op.duplicate_count = 1
    /\ Len(events) = 1

====
